---- MODULE Spec2Model ----
(***************************************************************************)
(* A model of the Discord utility bot of src/main.py: the chunked message  *)
(* delivery (return_message), the language registry lookups, the translate *)
(* command (t), the paginated language listing (l), the calculator (c),    *)
(* and the help and echo commands (h, e).                                  *)
(*                                                                         *)
(* Text is modelled by TLA+ strings; a character is a string of length 1,  *)
(* read with SubSeq.  Every await and every call of an external service is *)
(* a step that may return or raise.                                        *)
(***************************************************************************)
EXTENDS Integers, Sequences, FiniteSets, TLC

(***************************************************************************)
(* Python string operations used by the program.                           *)
(***************************************************************************)
Min(a, b) == IF a < b THEN a ELSE b

Max(a, b) == IF a < b THEN b ELSE a

\* s[i] for a 1-based index i
CharAt(s, i) == SubSeq(s, i, i)

\* Python's s[a:b] for 0 <= a <= b (0-based, end exclusive, clamped to len(s))
Slice(s, a, b) == SubSeq(s, a + 1, Min(b, Len(s)))

ToLower ==
  [A |-> "a", B |-> "b", C |-> "c", D |-> "d", E |-> "e", F |-> "f", G |-> "g",
   H |-> "h", I |-> "i", J |-> "j", K |-> "k", L |-> "l", M |-> "m", N |-> "n",
   O |-> "o", P |-> "p", Q |-> "q", R |-> "r", S |-> "s", T |-> "t", U |-> "u",
   V |-> "v", W |-> "w", X |-> "x", Y |-> "y", Z |-> "z"]

ToUpper ==
  [a |-> "A", b |-> "B", c |-> "C", d |-> "D", e |-> "E", f |-> "F", g |-> "G",
   h |-> "H", i |-> "I", j |-> "J", k |-> "K", l |-> "L", m |-> "M", n |-> "N",
   o |-> "O", p |-> "P", q |-> "Q", r |-> "R", s |-> "S", t |-> "T", u |-> "U",
   v |-> "V", w |-> "W", x |-> "X", y |-> "Y", z |-> "Z"]

IsLetter(ch) == ch \in DOMAIN ToLower \/ ch \in DOMAIN ToUpper

LowerChar(ch) == IF ch \in DOMAIN ToLower THEN ToLower[ch] ELSE ch

UpperChar(ch) == IF ch \in DOMAIN ToUpper THEN ToUpper[ch] ELSE ch

IsSpace(ch) == ch \in {" ", "\n", "\t"}

RECURSIVE LowerFrom(_, _)
LowerFrom(s, i) ==
  IF i > Len(s) THEN "" ELSE LowerChar(CharAt(s, i)) \o LowerFrom(s, i + 1)

\* str.lower()
Lower(s) == LowerFrom(s, 1)

RECURSIVE UpperFrom(_, _)
UpperFrom(s, i) ==
  IF i > Len(s) THEN "" ELSE UpperChar(CharAt(s, i)) \o UpperFrom(s, i + 1)

\* str.upper()
Upper(s) == UpperFrom(s, 1)

RECURSIVE TitleFrom(_, _)
TitleFrom(s, i) ==
  IF i > Len(s) THEN ""
  ELSE LET ch == CharAt(s, i)
           start == i = 1 \/ ~IsLetter(CharAt(s, i - 1))
       IN (IF start THEN UpperChar(ch) ELSE LowerChar(ch)) \o TitleFrom(s, i + 1)

\* str.title(): a letter that follows a non-letter is upper-cased, every other
\* letter is lower-cased
Title(s) == TitleFrom(s, 1)

RECURSIVE LStripFrom(_, _)
LStripFrom(s, i) ==
  IF i <= Len(s) /\ IsSpace(CharAt(s, i)) THEN LStripFrom(s, i + 1) ELSE i

RECURSIVE RStripFrom(_, _)
RStripFrom(s, j) ==
  IF j >= 1 /\ IsSpace(CharAt(s, j)) THEN RStripFrom(s, j - 1) ELSE j

\* str.strip()
Strip(s) == SubSeq(s, LStripFrom(s, 1), RStripFrom(s, Len(s)))

RECURSIVE RemoveCharFrom(_, _, _)
RemoveCharFrom(s, ch, i) ==
  IF i > Len(s) THEN ""
  ELSE (IF CharAt(s, i) = ch THEN "" ELSE CharAt(s, i)) \o RemoveCharFrom(s, ch, i + 1)

\* str.replace(ch, "") for a single character ch
RemoveChar(s, ch) == RemoveCharFrom(s, ch, 1)

\* s[i-1:].startswith(p) for a 1-based position i
StartsWithAt(s, i, p) ==
  /\ i + Len(p) - 1 <= Len(s)
  /\ SubSeq(s, i, i + Len(p) - 1) = p

\* p in s, for strings
Contains(s, p) == \E i \in 1..(Len(s) + 1) : StartsWithAt(s, i, p)

\* s repeated until it has n characters
RECURSIVE Repeat(_, _)
Repeat(s, n) ==
  IF n <= Len(s) THEN SubSeq(s, 1, n)
  ELSE Repeat(s \o s, n)

\* the value None where the program has a str or None: a text no str of the
\* model equals
None == "<None>"

\* str(x) inside an f-string, for x a str or None
Str(x) == IF x = None THEN "None" ELSE x

\* no value yet, for a variable that holds a record once it is set
Absent == [absent |-> TRUE]

(***************************************************************************)
(* Module globals.                                                         *)
(***************************************************************************)
\* MAX_MESSAGE_LENGTH: the most characters Discord accepts in one message
MAX_MESSAGE_LENGTH == 2000

\* LANGUAGES: the table GoogleTranslator().get_supported_languages(as_dict=True)
\* returns, name -> code, in its order (a sample of the table: its first 45
\* entries and the one entry whose code has upper-case letters after them)
LANGUAGES ==
  << <<"afrikaans", "af">>, <<"albanian", "sq">>, <<"amharic", "am">>,
     <<"arabic", "ar">>, <<"armenian", "hy">>, <<"assamese", "as">>,
     <<"aymara", "ay">>, <<"azerbaijani", "az">>, <<"bambara", "bm">>,
     <<"basque", "eu">>, <<"belarusian", "be">>, <<"bengali", "bn">>,
     <<"bhojpuri", "bho">>, <<"bosnian", "bs">>, <<"bulgarian", "bg">>,
     <<"catalan", "ca">>, <<"cebuano", "ceb">>, <<"chichewa", "ny">>,
     <<"chinese (simplified)", "zh-CN">>, <<"chinese (traditional)", "zh-TW">>,
     <<"corsican", "co">>, <<"croatian", "hr">>, <<"czech", "cs">>,
     <<"danish", "da">>, <<"dhivehi", "dv">>, <<"dogri", "doi">>,
     <<"dutch", "nl">>, <<"english", "en">>, <<"esperanto", "eo">>,
     <<"estonian", "et">>, <<"ewe", "ee">>, <<"filipino", "tl">>,
     <<"finnish", "fi">>, <<"french", "fr">>, <<"frisian", "fy">>,
     <<"galician", "gl">>, <<"georgian", "ka">>, <<"german", "de">>,
     <<"greek", "el">>, <<"guarani", "gn">>, <<"gujarati", "gu">>,
     <<"haitian creole", "ht">>, <<"hausa", "ha">>, <<"hawaiian", "haw">>,
     <<"hebrew", "iw">>, <<"meiteilon (manipuri)", "mni-Mtei">> >>

\* LANGUAGES.values()
LanguageValues == {LANGUAGES[k][2] : k \in 1..Len(LANGUAGES)}

(***************************************************************************)
(* return_message: the content in chunks of MAX_MESSAGE_LENGTH characters. *)
(***************************************************************************)
VARIABLES
  rm_pc,        \* "idle", "reply" (awaiting the reply), "send" (in the loop),
                \* "returned", "raised"
  rm_content,   \* the argument content
  rm_i,         \* the loop variable i of range(MAX, len(content), MAX)
  rm_sent       \* the messages sent in order: [kind: "reply" | "send", text]

rm_vars == <<rm_pc, rm_content, rm_i, rm_sent>>

\* a slice that ends one character early
ChunkShort(content, i) == Slice(content, i, i + MAX_MESSAGE_LENGTH - 1)

\* content[i:i+MAX_MESSAGE_LENGTH]
Chunk(content, i) == Slice(content, i, i + MAX_MESSAGE_LENGTH)

RMInit ==
  /\ rm_pc = "idle"
  /\ rm_content = ""
  /\ rm_i = 0
  /\ rm_sent = <<>>

\* the call: the first chunk is handed to ctx.message.reply
RMCall(content) ==
  /\ rm_pc' = "reply"
  /\ rm_content' = content
  /\ rm_i' = 0
  /\ rm_sent' = <<>>

\* ctx.message.reply returns; the loop starts at i = MAX_MESSAGE_LENGTH
RMReplyDone ==
  /\ rm_pc = "reply"
  /\ rm_sent' = Append(rm_sent, [kind |-> "reply", text |-> Chunk(rm_content, 0)])
  /\ rm_i' = MAX_MESSAGE_LENGTH
  /\ rm_pc' = IF MAX_MESSAGE_LENGTH < Len(rm_content) THEN "send" ELSE "returned"
  /\ UNCHANGED rm_content

\* ctx.send of the chunk at i returns; i moves on by MAX_MESSAGE_LENGTH
RMSendDone ==
  /\ rm_pc = "send"
  /\ rm_sent' = Append(rm_sent, [kind |-> "send", text |-> Chunk(rm_content, rm_i)])
  /\ rm_i' = rm_i + MAX_MESSAGE_LENGTH
  /\ rm_pc' = IF rm_i + MAX_MESSAGE_LENGTH < Len(rm_content) THEN "send" ELSE "returned"
  /\ UNCHANGED rm_content

\* ctx.message.reply or ctx.send raises: the fault leaves return_message
RMRaise ==
  /\ rm_pc \in {"reply", "send"}
  /\ rm_pc' = "raised"
  /\ UNCHANGED <<rm_content, rm_i, rm_sent>>

(***************************************************************************)
(* The language registry lookups.                                          *)
(***************************************************************************)
\* the loop "for l in LANGUAGES.items(): if dest_lang in l: return l[1]" from
\* entry k on, and the special cases after it
\* special cases that give both Chinese codes for zh-tw and for zh-cn alike
SpecialCasesOneChinese(dest_lang) ==
  IF dest_lang \in {"chinese", "zh", "zh-tw", "zh-cn"} THEN "zh-CN" ELSE None

\* the special cases for Chinese, and None after them
SpecialCases(dest_lang) ==
  IF dest_lang = "chinese" \/ dest_lang = "zh" THEN "zh-CN"
  ELSE IF dest_lang = "zh-tw" THEN "zh-TW"
  ELSE IF dest_lang = "zh-cn" THEN "zh-CN"
  ELSE None

RECURSIVE GetLangCodeFrom(_, _)
GetLangCodeFrom(dest_lang, k) ==
  IF k <= Len(LANGUAGES)
  THEN IF dest_lang = LANGUAGES[k][1] \/ dest_lang = LANGUAGES[k][2]
       THEN LANGUAGES[k][2]
       ELSE GetLangCodeFrom(dest_lang, k + 1)
  ELSE SpecialCases(dest_lang)

get_lang_code(dest_lang) == GetLangCodeFrom(Lower(dest_lang), 1)

RECURSIVE KeyFromValueFrom(_, _, _)
KeyFromValueFrom(dictionary, value, k) ==
  IF k > Len(dictionary) THEN None
  ELSE IF value = dictionary[k][2] THEN dictionary[k][1]
  ELSE KeyFromValueFrom(dictionary, value, k + 1)

\* a reverse lookup that returns the last key with the value
key_from_value_last(dictionary, value) ==
  IF \E k \in 1..Len(dictionary) : dictionary[k][2] = value
  THEN dictionary[CHOOSE k \in 1..Len(dictionary) :
         /\ dictionary[k][2] = value
         /\ \A j \in (k + 1)..Len(dictionary) : dictionary[j][2] # value][1]
  ELSE None

key_from_value(dictionary, value) == KeyFromValueFrom(dictionary, value, 1)

(***************************************************************************)
(* t: the suffix a translation of the bot carries, and its removal.        *)
(***************************************************************************)
\* key.title() for key in LANGUAGES: the alternatives of the pattern
TitledKeys == {Title(LANGUAGES[k][1]) : k \in 1..Len(LANGUAGES)}

RECURSIVE SkipSpaces(_, _)
SkipSpaces(s, i) ==
  IF i <= Len(s) /\ IsSpace(CharAt(s, i)) THEN SkipSpaces(s, i + 1) ELSE i

\* The positions right after a match of \s*\((?:keys) -> (?:keys)\)\s* that
\* starts at position i of s.  Both \s* are greedy and what follows them is no
\* white space; no key continues another key up to " -> " or ")": there is at
\* most one such position.
MatchEnds(s, i) ==
  LET open == SkipSpaces(s, i)
  IN IF ~StartsWithAt(s, open, "(") THEN {}
     ELSE {SkipSpaces(s, open + 1 + Len(k1) + 4 + Len(k2) + 1) :
             <<k1, k2>> \in {kk \in TitledKeys \X TitledKeys :
               /\ StartsWithAt(s, open + 1, kk[1])
               /\ StartsWithAt(s, open + 1 + Len(kk[1]), " -> ")
               /\ StartsWithAt(s, open + 1 + Len(kk[1]) + 4, kk[2])
               /\ StartsWithAt(s, open + 1 + Len(kk[1]) + 4 + Len(kk[2]), ")")}}

\* re.sub(pattern, "", s) from position i on: the leftmost match is cut out and
\* the scan goes on after it
RECURSIVE ReSubFrom(_, _)
ReSubFrom(s, i) ==
  IF i > Len(s) THEN ""
  ELSE LET ends == MatchEnds(s, i)
       IN IF ends # {} THEN ReSubFrom(s, CHOOSE e \in ends : TRUE)
          ELSE CharAt(s, i) \o ReSubFrom(s, i + 1)

ReSub(s) == ReSubFrom(s, 1)

\* msg_content of t: the fetched content stripped and without "*", and for a
\* message of the bot without the translation suffixes
CleanContent(content, by_bot) ==
  LET plain == RemoveChar(Strip(content), "*")
  IN IF by_bot THEN Strip(ReSub(plain)) ELSE plain

(***************************************************************************)
(* t: the translate command.                                               *)
(***************************************************************************)
VARIABLES
  t_pc,           \* "idle", "reply" (a reply of the try block is awaited),
                  \* "fetch", "detect", "translate", "deliver", "except_reply",
                  \* "returned", "escaped" (a fault left the handler)
  t_reference,    \* whether ctx.message.reference is set
  t_arg,          \* the argument dest_lang as the user gave it
  t_dest_lang,    \* the local dest_lang after get_lang_code
  t_msg_content,  \* the local msg_content
  t_src_lang,     \* the local src_lang
  t_calls,        \* the calls made in order: [call, arg]
  t_sent,         \* the replies that arrived, in order
  t_fault         \* the step whose fault the except clause caught ("": none)

t_vars == <<t_pc, t_reference, t_arg, t_dest_lang, t_msg_content, t_src_lang, t_calls, t_sent, t_fault>>

\* The reply texts of t.  The source writes a backquote where these texts have
\* a single quote: SANY's lexer does not take a backquote inside a string.
USAGE_ERROR == "\nUsage: Reply to a message with '-t <language>'."

NoReferenceText == "Error: No Message Found." \o USAGE_ERROR

InvalidLanguageText(dest_lang) ==
  "Error: '" \o Str(dest_lang) \o "' is not a valid language." \o USAGE_ERROR

EmptyMessageText == "Error: No Message Found.\n" \o USAGE_ERROR

UnsupportedSourceText(src_lang) ==
  "Error: '" \o Str(src_lang) \o "' is not a supported source language.\n" \o USAGE_ERROR

TranslationFailedText == "Error: Translation failed.\n" \o USAGE_ERROR

UnknownErrorText == "Error: Unknown.\n" \o USAGE_ERROR

\* the special case for Chinese after the detection
NormalizeSource(detected) == IF detected = "zh" THEN "zh-CN" ELSE detected

\* a test that lets every detected code pass
SupportedSourceAny(src_lang) == TRUE

\* src_lang in LANGUAGES.values()
SupportedSource(src_lang) == src_lang \in LanguageValues

\* a test that takes only None for falsy
FalsyNoneOnly(x) == x = None

\* not x, for x a str or None
Falsy(x) == x = None \/ x = ""

\* a try block that ends before the delivery
InTryBeforeDelivery(step) == step \in {"reply", "fetch", "detect", "translate", "format"}

\* whether the step lies inside the try block of t
InTry(step) == step \in {"reply", "fetch", "detect", "translate", "format", "deliver"}

\* f"**{translated_msg}** ({src} -> {dest})"
FormatTranslation(translated_msg, src_name, dest_name) ==
  "**" \o translated_msg \o "** (" \o Title(src_name) \o " -> " \o Title(dest_name) \o ")"

Call(name, arg) == [call |-> name, arg |-> arg]

TInit ==
  /\ t_pc = "idle"
  /\ t_reference = FALSE
  /\ t_arg = ""
  /\ t_dest_lang = ""
  /\ t_msg_content = ""
  /\ t_src_lang = ""
  /\ t_calls = <<>>
  /\ t_sent = <<>>
  /\ t_fault = ""

\* a fault raised at step: the except clause takes it when the step is inside
\* the try block and calls the generic reply; else it leaves the handler
TCatch(step) ==
  /\ t_fault' = step
  /\ IF InTry(step)
     THEN /\ t_pc' = "except_reply"
          /\ t_calls' = Append(t_calls, Call("except_reply", UnknownErrorText))
     ELSE /\ t_pc' = "escaped"
          /\ UNCHANGED t_calls

\* -t dest_lang arrives, as a reply to a message or not; up to the first await
TInvoke(has_reference, dest_lang) ==
  /\ t_pc = "idle"
  /\ t_reference' = has_reference
  /\ t_arg' = dest_lang
  /\ IF ~has_reference
     THEN /\ t_pc' = "reply"
          /\ t_calls' = Append(t_calls, Call("reply", NoReferenceText))
          /\ UNCHANGED t_dest_lang
     ELSE /\ t_dest_lang' = get_lang_code(dest_lang)
          /\ IF t_dest_lang' = None
             THEN /\ t_pc' = "reply"
                  /\ t_calls' = Append(t_calls, Call("reply", InvalidLanguageText(t_dest_lang')))
             ELSE /\ t_pc' = "fetch"
                  /\ t_calls' = Append(t_calls, Call("fetch", ""))
  /\ UNCHANGED <<t_msg_content, t_src_lang, t_sent, t_fault>>

\* ctx.channel.fetch_message returns msg; its content is cleaned and, unless
\* nothing is left, handed to single_detection
TFetchDone(content, by_bot) ==
  /\ t_pc = "fetch"
  /\ t_msg_content' = CleanContent(content, by_bot)
  /\ IF t_msg_content' = ""
     THEN /\ t_pc' = "reply"
          /\ t_calls' = Append(t_calls, Call("reply", EmptyMessageText))
     ELSE /\ t_pc' = "detect"
          /\ t_calls' = Append(t_calls, Call("detect", t_msg_content'))
  /\ UNCHANGED <<t_reference, t_arg, t_dest_lang, t_src_lang, t_sent, t_fault>>

\* single_detection returns a code
TDetectDone(detected) ==
  /\ t_pc = "detect"
  /\ t_src_lang' = NormalizeSource(detected)
  /\ IF ~SupportedSource(t_src_lang')
     THEN /\ t_pc' = "reply"
          /\ t_calls' = Append(t_calls, Call("reply", UnsupportedSourceText(t_src_lang')))
     ELSE /\ t_pc' = "translate"
          /\ t_calls' = Append(t_calls, Call("translate", t_src_lang'))
  /\ UNCHANGED <<t_reference, t_arg, t_dest_lang, t_msg_content, t_sent, t_fault, rm_vars>>

\* GoogleTranslator(...).translate returns a falsy value: the failure reply
TTranslateEmpty(translated_msg) ==
  /\ t_pc = "translate"
  /\ Falsy(translated_msg)
  /\ t_pc' = "reply"
  /\ t_calls' = Append(t_calls, Call("reply", TranslationFailedText))
  /\ UNCHANGED <<t_reference, t_arg, t_dest_lang, t_msg_content, t_src_lang, t_sent, t_fault, rm_vars>>

\* GoogleTranslator(...).translate returns a text: it is formatted with the two
\* language names (None.title() raises when a code has no name) and handed to
\* return_message
TTranslateDone(translated_msg) ==
  /\ t_pc = "translate"
  /\ ~Falsy(translated_msg)
  /\ LET src_name == key_from_value(LANGUAGES, t_src_lang)
         dest_name == key_from_value(LANGUAGES, t_dest_lang)
     IN IF src_name = None \/ dest_name = None
        THEN TCatch("format") /\ UNCHANGED rm_vars
        ELSE /\ t_pc' = "deliver"
             /\ RMCall(FormatTranslation(translated_msg, src_name, dest_name))
             /\ t_calls' = Append(t_calls, Call("deliver", ""))
             /\ UNCHANGED t_fault
  /\ UNCHANGED <<t_reference, t_arg, t_dest_lang, t_msg_content, t_src_lang, t_sent>>

\* return_message returns, and so does t
TDeliverReturn ==
  /\ t_pc = "deliver"
  /\ rm_pc = "returned"
  /\ t_pc' = "returned"
  /\ UNCHANGED <<t_reference, t_arg, t_dest_lang, t_msg_content, t_src_lang, t_calls, t_sent, t_fault, rm_vars>>

\* return_message raises
TDeliverRaise ==
  /\ t_pc = "deliver"
  /\ rm_pc = "raised"
  /\ TCatch("deliver")
  /\ UNCHANGED <<t_reference, t_arg, t_dest_lang, t_msg_content, t_src_lang, t_sent, rm_vars>>

\* a reply of the try block arrives: t returns it
TReplyDone ==
  /\ t_pc = "reply"
  /\ t_sent' = Append(t_sent, t_calls[Len(t_calls)].arg)
  /\ t_pc' = "returned"
  /\ UNCHANGED <<t_reference, t_arg, t_dest_lang, t_msg_content, t_src_lang, t_calls, t_fault, rm_vars>>

\* the awaited call of the try block raises (a reply, fetch_message,
\* single_detection or translate)
TRaise ==
  /\ t_pc \in {"reply", "fetch", "detect", "translate"}
  /\ TCatch(t_pc)
  /\ UNCHANGED <<t_reference, t_arg, t_dest_lang, t_msg_content, t_src_lang, t_sent, rm_vars>>

\* the reply of the except clause arrives
TExceptReplyDone ==
  /\ t_pc = "except_reply"
  /\ t_sent' = Append(t_sent, UnknownErrorText)
  /\ t_pc' = "returned"
  /\ UNCHANGED <<t_reference, t_arg, t_dest_lang, t_msg_content, t_src_lang, t_calls, t_fault, rm_vars>>

\* the reply of the except clause raises: nothing catches it
TExceptReplyRaise ==
  /\ t_pc = "except_reply"
  /\ t_pc' = "escaped"
  /\ UNCHANGED <<t_reference, t_arg, t_dest_lang, t_msg_content, t_src_lang, t_calls, t_sent, t_fault, rm_vars>>

(***************************************************************************)
(* c: eval(eq), for the expressions made of integers, names, calls with    *)
(* one argument, parentheses, unary and binary + - * / and **.  eval       *)
(* compiles the whole text first (SyntaxError) and then evaluates it from  *)
(* left to right, looking names up in the globals of the module and in the *)
(* builtins.  An int is exact; a float is held as the fraction n/d it      *)
(* stands for, or as the term that produced it where no fraction does.     *)
(***************************************************************************)
Digits == <<"0", "1", "2", "3", "4", "5", "6", "7", "8", "9">>

IsDigit(ch) == \E k \in 1..10 : Digits[k] = ch

DigitValue(ch) == (CHOOSE k \in 1..10 : Digits[k] = ch) - 1

IsNameChar(ch) == IsLetter(ch) \/ IsDigit(ch) \/ ch = "_"

RECURSIVE DigitsEnd(_, _)
DigitsEnd(s, i) == IF i <= Len(s) /\ IsDigit(CharAt(s, i)) THEN DigitsEnd(s, i + 1) ELSE i

RECURSIVE NameEnd(_, _)
NameEnd(s, i) == IF i <= Len(s) /\ IsNameChar(CharAt(s, i)) THEN NameEnd(s, i + 1) ELSE i

RECURSIVE IntOf(_, _)
IntOf(s, n) == IF n = 0 THEN 0 ELSE 10 * IntOf(s, n - 1) + DigitValue(CharAt(s, n))

NoParse == [ok |-> FALSE]

Parsed(ast, pos) == [ok |-> TRUE, ast |-> ast, pos |-> pos]

\* the token at the next position that is no space
NextIs(s, i, tok) == StartsWithAt(s, SkipSpaces(s, i), tok)

After(s, i, tok) == SkipSpaces(s, i) + Len(tok)

RECURSIVE ParseExpr(_, _), ParseExprRest(_, _, _), ParseTerm(_, _), ParseTermRest(_, _, _),
          ParseFactor(_, _), ParsePower(_, _), ParseName(_, _, _), ParseAtomAt(_, _),
          ParseAtom(_, _)

\* Body(v), with v evaluated once
Once(v, Body(_)) == CHOOSE y \in {Body(x) : x \in {v}} : TRUE

\* expr: term (("+" | "-") term)*
ParseExpr(s, i) ==
  Once(ParseTerm(s, i),
       LAMBDA left : IF left.ok THEN ParseExprRest(s, left.ast, left.pos) ELSE NoParse)

ParseExprRest(s, left, i) ==
  IF NextIs(s, i, "+") \/ NextIs(s, i, "-")
  THEN Once(ParseTerm(s, SkipSpaces(s, i) + 1),
            LAMBDA right :
              IF right.ok
              THEN ParseExprRest(s, [op |-> CharAt(s, SkipSpaces(s, i)), l |-> left,
                                     r |-> right.ast], right.pos)
              ELSE NoParse)
  ELSE Parsed(left, i)

\* term: factor (("*" | "/") factor)*
ParseTerm(s, i) ==
  Once(ParseFactor(s, i),
       LAMBDA left : IF left.ok THEN ParseTermRest(s, left.ast, left.pos) ELSE NoParse)

ParseTermRest(s, left, i) ==
  IF (NextIs(s, i, "*") /\ ~NextIs(s, i, "**")) \/ NextIs(s, i, "/")
  THEN Once(ParseFactor(s, SkipSpaces(s, i) + 1),
            LAMBDA right :
              IF right.ok
              THEN ParseTermRest(s, [op |-> CharAt(s, SkipSpaces(s, i)), l |-> left,
                                     r |-> right.ast], right.pos)
              ELSE NoParse)
  ELSE Parsed(left, i)

\* factor: ("+" | "-") factor | power
ParseFactor(s, i) ==
  IF NextIs(s, i, "-") \/ NextIs(s, i, "+")
  THEN Once(ParseFactor(s, SkipSpaces(s, i) + 1),
            LAMBDA e :
              IF e.ok
              THEN Parsed([op |-> "unary" \o CharAt(s, SkipSpaces(s, i)), e |-> e.ast], e.pos)
              ELSE NoParse)
  ELSE ParsePower(s, i)

\* power: atom ["**" factor]
ParsePower(s, i) ==
  Once(ParseAtom(s, i),
       LAMBDA base :
         IF ~base.ok THEN NoParse
         ELSE IF NextIs(s, base.pos, "**")
         THEN Once(ParseFactor(s, After(s, base.pos, "**")),
                   LAMBDA e :
                     IF e.ok THEN Parsed([op |-> "**", l |-> base.ast, r |-> e.ast], e.pos)
                     ELSE NoParse)
         ELSE base)

\* NAME, or NAME "(" expr ")", for the name that ends before b
ParseName(s, a, b) ==
  IF NextIs(s, b, "(")
  THEN Once(ParseExpr(s, After(s, b, "(")),
            LAMBDA arg :
              IF arg.ok /\ NextIs(s, arg.pos, ")")
              THEN Parsed([op |-> "call", f |-> [op |-> "name", id |-> SubSeq(s, a, b - 1)],
                           arg |-> arg.ast], After(s, arg.pos, ")"))
              ELSE NoParse)
  ELSE Parsed([op |-> "name", id |-> SubSeq(s, a, b - 1)], b)

\* atom: NUMBER | NAME | NAME "(" expr ")" | "(" expr ")", from the position a
ParseAtomAt(s, a) ==
  IF a > Len(s) THEN NoParse
  ELSE IF IsDigit(CharAt(s, a))
  THEN Once(DigitsEnd(s, a),
            LAMBDA b :
              IF b <= Len(s) /\ IsNameChar(CharAt(s, b)) THEN NoParse
              ELSE Parsed([op |-> "num", n |-> IntOf(SubSeq(s, a, b - 1), b - a)], b))
  ELSE IF IsNameChar(CharAt(s, a))
  THEN Once(NameEnd(s, a), LAMBDA b : ParseName(s, a, b))
  ELSE IF CharAt(s, a) = "("
  THEN Once(ParseExpr(s, a + 1),
            LAMBDA e :
              IF e.ok /\ NextIs(s, e.pos, ")") THEN Parsed(e.ast, After(s, e.pos, ")"))
              ELSE NoParse)
  ELSE NoParse

ParseAtom(s, i) == Once(SkipSpaces(s, i), LAMBDA a : ParseAtomAt(s, a))

\* the whole text as one expression, or no parse (SyntaxError)
Compile(s) ==
  Once(ParseExpr(s, 1),
       LAMBDA e : IF e.ok /\ SkipSpaces(s, e.pos) > Len(s) THEN e ELSE NoParse)

\* values
IntV(n) == [kind |-> "int", n |-> n, d |-> 1]

FloatV(n, d) == IF d < 0 THEN [kind |-> "float", n |-> 0 - n, d |-> 0 - d]
                ELSE [kind |-> "float", n |-> n, d |-> d]

TermV(term) == [kind |-> "float", term |-> term]

StrV(str) == [kind |-> "str", s |-> str]

FuncV(name) == [kind |-> "func", name |-> name]

ObjV(name) == [kind |-> "object", name |-> name]

IsNumber(v) == v.kind \in {"int", "float"}

IsExact(v) == IsNumber(v) /\ "n" \in DOMAIN v

Value(v) == [exc |-> "", v |-> v]

Raises(exc) == [exc |-> exc]

\* the names the from-import of math binds (degrees and radians as deg and rad)
MathNames == {"floor", "ceil", "sqrt", "sin", "cos", "tan", "asin", "acos", "atan", "deg", "rad"}

\* the other names bound in the module that are modelled, and some builtins
ObjectNames == {"LANGUAGES", "bot", "os", "re", "discord", "commands"}

BuiltinNames == {"len", "abs"}

\* the lookup of a name by eval: the module's globals g, then the builtins
Lookup(id, g) ==
  IF id \in MathNames \/ id \in BuiltinNames THEN Value(FuncV(id))
  ELSE IF id = "pi" THEN Value(TermV(<<"pi">>))
  ELSE IF id = "ID" THEN Value(IntV(g.ID))
  ELSE IF id = "TOKEN" THEN Value(StrV(g.TOKEN))
  ELSE IF id = "TRANSLATE_API_KEY" THEN Value(StrV(g.TRANSLATE_API_KEY))
  ELSE IF id = "MAX_MESSAGE_LENGTH" THEN Value(IntV(MAX_MESSAGE_LENGTH))
  ELSE IF id \in ObjectNames THEN Value(ObjV(id))
  ELSE Raises("NameError:" \o id)

RECURSIVE IntPower(_, _)
IntPower(b, e) == IF e = 0 THEN 1 ELSE b * IntPower(b, e - 1)

\* l o r for two values
BinaryOp(o, l, r) ==
  IF ~IsNumber(l) \/ ~IsNumber(r) THEN Raises("TypeError")
  ELSE IF o = "/" /\ IsExact(r) /\ r.n = 0 THEN Raises("ZeroDivisionError")
  ELSE IF ~IsExact(l) \/ ~IsExact(r) THEN Value(TermV(<<o, l, r>>))
  ELSE LET ints == l.kind = "int" /\ r.kind = "int"
           make(n, d) == IF ints THEN IntV(n) ELSE FloatV(n, d)
       IN CASE o = "+" -> Value(make(l.n * r.d + r.n * l.d, l.d * r.d))
            [] o = "-" -> Value(make(l.n * r.d - r.n * l.d, l.d * r.d))
            [] o = "*" -> Value(make(l.n * r.n, l.d * r.d))
            [] o = "/" -> Value(FloatV(l.n * r.d, l.d * r.n))
            [] o = "**" -> IF ints /\ r.n >= 0 THEN Value(IntV(IntPower(l.n, r.n)))
                           ELSE Value(TermV(<<o, l, r>>))

UnaryOp(o, e) ==
  IF ~IsNumber(e) THEN Raises("TypeError")
  ELSE IF ~IsExact(e) THEN Value(TermV(<<o, e>>))
  ELSE IF o = "unary-" THEN Value([e EXCEPT !.n = 0 - e.n])
  ELSE Value(e)

\* f(arg) for a value f and a value arg
Apply(f, arg) ==
  IF f.kind # "func" THEN Raises("TypeError")
  ELSE IF f.name = "len"
  THEN IF arg.kind = "str" THEN Value(IntV(Len(arg.s))) ELSE Raises("TypeError")
  ELSE IF ~IsNumber(arg) THEN Raises("TypeError")
  ELSE IF ~IsExact(arg) THEN Value(TermV(<<f.name, arg>>))
  ELSE CASE f.name = "floor" -> Value(IntV(arg.n \div arg.d))
         [] f.name = "ceil" -> Value(IntV(0 - ((0 - arg.n) \div arg.d)))
         [] f.name = "abs" -> Value([arg EXCEPT !.n = IF arg.n < 0 THEN 0 - arg.n ELSE arg.n])
         [] f.name = "sqrt" ->
              IF arg.n < 0 THEN Raises("ValueError")
              ELSE IF \E k \in 0..arg.n : k * k * arg.d = arg.n
              THEN Value(FloatV(CHOOSE k \in 0..arg.n : k * k * arg.d = arg.n, 1))
              ELSE Value(TermV(<<f.name, arg>>))
         [] OTHER -> Value(TermV(<<f.name, arg>>))

\* the evaluation of a compiled expression, operands from left to right
RECURSIVE Evaluate(_, _)
Evaluate(ast, g) ==
  CASE ast.op = "num" -> Value(IntV(ast.n))
    [] ast.op = "name" -> Lookup(ast.id, g)
    [] ast.op = "call" ->
         Once(Evaluate(ast.f, g),
              LAMBDA f :
                IF f.exc # "" THEN f
                ELSE Once(Evaluate(ast.arg, g),
                          LAMBDA arg : IF arg.exc # "" THEN arg ELSE Apply(f.v, arg.v)))
    [] ast.op \in {"unary-", "unary+"} ->
         Once(Evaluate(ast.e, g), LAMBDA e : IF e.exc # "" THEN e ELSE UnaryOp(ast.op, e.v))
    [] OTHER ->
         Once(Evaluate(ast.l, g),
              LAMBDA l :
                IF l.exc # "" THEN l
                ELSE Once(Evaluate(ast.r, g),
                          LAMBDA r : IF r.exc # "" THEN r ELSE BinaryOp(ast.op, l.v, r.v)))

\* eval(eq) with the globals g
PyEval(eq, g) ==
  Once(Compile(eq),
       LAMBDA compiled : IF compiled.ok THEN Evaluate(compiled.ast, g) ELSE Raises("SyntaxError"))

\* round(v, 5)
Round5(v) ==
  IF ~IsNumber(v) THEN Raises("TypeError")
  ELSE IF v.kind = "int" THEN Value(v)
  ELSE IF ~IsExact(v) THEN Value(TermV(<<"round", v, 5>>))
  ELSE Value(FloatV((2 * v.n * 100000 + v.d) \div (2 * v.d), 100000))

RECURSIVE JoinFrom(_, _)
JoinFrom(words, k) ==
  IF k > Len(words) THEN ""
  ELSE IF k = Len(words) THEN words[k]
  ELSE words[k] \o " " \o JoinFrom(words, k + 1)

\* " ".join(words)
Join(words) == JoinFrom(words, 1)

RECURSIVE ReplaceCaretFrom(_, _)
ReplaceCaretFrom(s, i) ==
  IF i > Len(s) THEN ""
  ELSE (IF CharAt(s, i) = "^" THEN "**" ELSE CharAt(s, i)) \o ReplaceCaretFrom(s, i + 1)

\* s.replace("^", "**")
ReplaceCaret(s) == ReplaceCaretFrom(s, 1)

(***************************************************************************)
(* c: the calculator command.                                              *)
(***************************************************************************)
VARIABLES
  g_keys,        \* the globals TOKEN, ID and TRANSLATE_API_KEY (Absent: not loaded)
  c_pc,          \* "idle", "reply" (the reply of the try block is awaited),
                 \* "except_reply", "returned", "escaped"
  c_equation,    \* the argument equation: the words after -c
  c_evals,       \* the texts eval was called with
  c_exc,         \* the exception the try block raised ("": none)
  c_calls,       \* the replies called for, in order
  c_sent         \* the replies that arrived, in order

c_vars == <<g_keys, c_pc, c_equation, c_evals, c_exc, c_calls, c_sent>>

UsageReply == [kind |-> "Error: No Equation Found.\nUsage: '-c <equation>'"]

TotalReply(v) == [kind |-> "Total: **{}**", value |-> v]

UndefinedReply == [kind |-> "Undefined"]

UnknownFunctionReply(name) == [kind |-> "Unknown Function: {}", name |-> name]

UnknownErrorReply == [kind |-> "Unknown Error:\nUsage: '-c <equation>'"]

CInit ==
  /\ g_keys = Absent
  /\ c_pc = "idle"
  /\ c_equation = <<>>
  /\ c_evals = <<>>
  /\ c_exc = ""
  /\ c_calls = <<>>
  /\ c_sent = <<>>

\* the module is loaded: fetch_key reads the three keys from the environment
Startup(keys) ==
  /\ g_keys = Absent
  /\ g_keys' = keys
  /\ UNCHANGED <<c_pc, c_equation, c_evals, c_exc, c_calls, c_sent>>

\* The except clause that takes an exception of the try block, and what it
\* does up to its await.  In the NameError clause e is the exception, which
\* has no split: e.split() raises AttributeError inside the clause, and no
\* clause of the same try statement catches it.
CExcept(exc) ==
  IF exc = "ValueError" THEN [pc |-> "except_reply", calls |-> <<UndefinedReply>>]
  ELSE IF StartsWithAt(exc, 1, "NameError") THEN [pc |-> "escaped", calls |-> <<>>]
  ELSE [pc |-> "except_reply", calls |-> <<UnknownErrorReply>>]

\* c from eval on, for the text eq and the globals g
CEvaluate(eq, g) ==
  Once(Once(PyEval(eq, g), LAMBDA total : IF total.exc # "" THEN total ELSE Round5(total.v)),
       LAMBDA rounded :
         IF rounded.exc = ""
         THEN [pc |-> "reply", evals |-> <<eq>>, exc |-> "", calls |-> <<TotalReply(rounded.v)>>]
         ELSE [pc |-> CExcept(rounded.exc).pc, evals |-> <<eq>>, exc |-> rounded.exc,
               calls |-> CExcept(rounded.exc).calls])

\* c without the test for an empty equation
CHandleNoEmptyTest(equation, g) == CEvaluate(ReplaceCaret(Join(equation)), g)

\* c up to its first await, for the words equation and the globals g
CHandle(equation, g) ==
  Once(ReplaceCaret(Join(equation)),
       LAMBDA eq :
         IF eq = ""
         THEN [pc |-> "reply", evals |-> <<>>, exc |-> "", calls |-> <<UsageReply>>]
         ELSE CEvaluate(eq, g))

\* -c equation arrives
CInvoke(equation) ==
  /\ g_keys # Absent
  /\ c_pc = "idle"
  /\ c_equation' = equation
  /\ \E r \in {CHandle(equation, g_keys)} :
       /\ c_pc' = r.pc
       /\ c_evals' = r.evals
       /\ c_exc' = r.exc
       /\ c_calls' = r.calls
  /\ UNCHANGED <<g_keys, c_sent>>

\* the reply of the try block arrives
CReplyDone ==
  /\ c_pc = "reply"
  /\ c_sent' = Append(c_sent, c_calls[Len(c_calls)])
  /\ c_pc' = "returned"
  /\ UNCHANGED <<g_keys, c_equation, c_evals, c_exc, c_calls>>

\* the reply of the try block raises (an exception of discord.py): the last
\* except clause takes it
CReplyRaise ==
  /\ c_pc = "reply"
  /\ c_exc' = "HTTPException"
  /\ c_pc' = CExcept("HTTPException").pc
  /\ c_calls' = c_calls \o CExcept("HTTPException").calls
  /\ UNCHANGED <<g_keys, c_equation, c_evals, c_sent>>

\* the reply of an except clause arrives
CExceptReplyDone ==
  /\ c_pc = "except_reply"
  /\ c_sent' = Append(c_sent, c_calls[Len(c_calls)])
  /\ c_pc' = "returned"
  /\ UNCHANGED <<g_keys, c_equation, c_evals, c_exc, c_calls>>

\* the reply of an except clause raises: nothing catches it
CExceptReplyRaise ==
  /\ c_pc = "except_reply"
  /\ c_pc' = "escaped"
  /\ UNCHANGED <<g_keys, c_equation, c_evals, c_exc, c_calls, c_sent>>

(***************************************************************************)
(* h and e: the help and the echo command.                                 *)
(***************************************************************************)
VARIABLES
  h_pc,      \* "idle", "reply", "returned", "escaped"
  e_pc,      \* "idle", "reply", "except_reply", "returned", "escaped"
  e_calls,   \* the replies e called for, in order
  e_sent     \* the replies of e that arrived

he_vars == <<h_pc, e_pc, e_calls, e_sent>>

HEInit ==
  /\ h_pc = "idle"
  /\ e_pc = "idle"
  /\ e_calls = <<>>
  /\ e_sent = <<>>

\* -h arrives: the help text is sent as a reply
HInvoke ==
  /\ h_pc = "idle"
  /\ h_pc' = "reply"
  /\ UNCHANGED <<e_pc, e_calls, e_sent>>

HReplyDone ==
  /\ h_pc = "reply"
  /\ h_pc' = "returned"
  /\ UNCHANGED <<e_pc, e_calls, e_sent>>

\* the reply raises; h has no handler
HReplyRaise ==
  /\ h_pc = "reply"
  /\ h_pc' = "escaped"
  /\ UNCHANGED <<e_pc, e_calls, e_sent>>

\* -e string arrives
EInvoke(words) ==
  /\ e_pc = "idle"
  /\ e_pc' = "reply"
  /\ e_calls' = IF Join(words) = ""
                THEN <<"Error: Invalid String\nUsage: '-e <string>'">>
                ELSE <<Join(words)>>
  /\ UNCHANGED <<h_pc, e_sent>>

EReplyDone ==
  /\ e_pc = "reply"
  /\ e_sent' = Append(e_sent, e_calls[Len(e_calls)])
  /\ e_pc' = "returned"
  /\ UNCHANGED <<h_pc, e_calls>>

\* the reply of the try block raises: the except clause replies
EReplyRaise ==
  /\ e_pc = "reply"
  /\ e_pc' = "except_reply"
  /\ e_calls' = Append(e_calls, "Unknown Error\nUsage: '-e <string>'")
  /\ UNCHANGED <<h_pc, e_sent>>

EExceptReplyDone ==
  /\ e_pc = "except_reply"
  /\ e_sent' = Append(e_sent, e_calls[Len(e_calls)])
  /\ e_pc' = "returned"
  /\ UNCHANGED <<h_pc, e_calls>>

\* the reply of the except clause raises: nothing catches it
EExceptReplyRaise ==
  /\ e_pc = "except_reply"
  /\ e_pc' = "escaped"
  /\ UNCHANGED <<h_pc, e_calls, e_sent>>

(***************************************************************************)
(* The platform: users, messages and the reactions on them.                *)
(***************************************************************************)
\* the two navigation emojis of l, and one that is neither
Back == "back"

Forward == "forward"

Other == "other"

Emojis == {Back, Forward, Other}

Users == {"alice", "bob"}

\* the bot's own user
Bot == "bot"

\* the listing sessions: one invocation of l each; the listing message a session
\* sends has the session's number as its id
Sessions == {1, 2}

\* the messages users react to: the listing messages
Messages == Sessions

(***************************************************************************)
(* l: the paginated listing of LANGUAGES.                                  *)
(***************************************************************************)
VARIABLES
  l_pc,            \* per session: "idle", "reply", "add_back", "add_fwd", "wait"
                   \* (in bot.wait_for), "edit", "remove", "returned", "raised"
  l_author,        \* per session: ctx.author
  l_pages,         \* per session: the local pages
  l_current_page,  \* per session: the local current_page
  l_trigger,       \* per session: the locals reaction, user of the loop
  l_new_page,      \* per session: the local new_page
  msg_content,     \* per message: its content on the platform (Absent: not sent)
  msg_reactions,   \* per message: the reactions on it, as <<user, emoji>>
  l_next,          \* per session: how often the loop took the Forward branch
  l_prev,          \* per session: how often the loop took the Back branch
  l_qualifying,    \* per session: the reactions its author added to its message
                   \* with a navigation emoji since the loop was first entered
  n_events         \* reactions added or taken back by users so far

l_vars == <<l_pc, l_author, l_pages, l_current_page, l_trigger, l_new_page,
            msg_content, msg_reactions, l_next, l_prev, l_qualifying, n_events>>

\* per_page of l
per_page == 20

\* math.ceil(a / b)
Ceil(a, b) == IF a % b = 0 THEN a \div b ELSE a \div b + 1

\* a page that leaves out the last entry of its chunk
PageContentShort(languages, pp, i) ==
  LET chunk == Slice(languages, i, i + pp - 1)
  IN [number |-> i \div pp + 1,
      total  |-> Ceil(Len(languages), pp),
      rows   |-> [j \in 1..Len(chunk) |-> <<Title(chunk[j][1]), Upper(chunk[j][2])>>]]

\* one page: the header's "(k of total)" and a row | Name | CODE | per entry.
\* The fixed text and the column padding of the rendering are left out.
PageContent(languages, pp, i) ==
  LET chunk == Slice(languages, i, i + pp)
  IN [number |-> i \div pp + 1,
      total  |-> Ceil(Len(languages), pp),
      rows   |-> [j \in 1..Len(chunk) |-> <<Title(chunk[j][1]), Upper(chunk[j][2])>>]]

\* the loop over range(0, len(languages), per_page)
RECURSIVE BuildPagesFrom(_, _, _)
BuildPagesFrom(languages, pp, i) ==
  IF i >= Len(languages) THEN <<>>
  ELSE <<PageContent(languages, pp, i)>> \o BuildPagesFrom(languages, pp, i + pp)

BuildPages(languages, pp) == BuildPagesFrom(languages, pp, 0)

Pages == BuildPages(LANGUAGES, per_page)

\* a remainder that keeps the sign of the cursor, as C's % does
PageIndexTruncated(current_page, n) ==
  IF current_page >= 0 THEN current_page % n ELSE 0 - ((0 - current_page) % n)

\* current_page % len(pages)
PageIndex(current_page, n) == current_page % n

\* pages[k] for a Python index k: a negative k counts from the end
PyIndex(seq, k) == IF k >= 0 THEN seq[k + 1] ELSE seq[Len(seq) + k + 1]

\* a check that does not look at who reacted
CheckAnyUser(s, reaction, user) ==
  /\ reaction.message = s
  /\ reaction.emoji \in {Back, Forward}

\* check(reaction, user) of session s, whose message has id s
Check(s, reaction, user) ==
  /\ user = l_author[s]
  /\ reaction.message = s
  /\ reaction.emoji \in {Back, Forward}

LInit ==
  /\ l_pc = [s \in Sessions |-> "idle"]
  /\ l_author = [s \in Sessions |-> None]
  /\ l_pages = [s \in Sessions |-> <<>>]
  /\ l_current_page = [s \in Sessions |-> 0]
  /\ l_trigger = [s \in Sessions |-> Absent]
  /\ l_new_page = [s \in Sessions |-> Absent]
  /\ msg_content = [m \in Messages |-> Absent]
  /\ msg_reactions = [m \in Messages |-> {}]
  /\ l_next = [s \in Sessions |-> 0]
  /\ l_prev = [s \in Sessions |-> 0]
  /\ l_qualifying = [s \in Sessions |-> 0]
  /\ n_events = 0

\* a listener that does not look at the message of the reaction
ResumesAnyMessage(s, reaction, user) ==
  /\ l_pc[s] = "wait"
  /\ user = l_author[s]
  /\ reaction.emoji \in {Back, Forward}

\* whether the reaction_add event (reaction, user) resumes session s: s is
\* in bot.wait_for and its check accepts the event.  A session that is not in
\* wait_for has no listener registered, and the event passes it by.
Resumes(s, reaction, user) ==
  /\ l_pc[s] = "wait"
  /\ Check(s, reaction, user)

\* The dispatch of a reaction_add event to the sessions in base_pc: a resumed
\* session takes the branch of its emoji, computes new_page and calls
\* message.edit.
Dispatch(base_pc, reaction, user) ==
  LET hit(s) == Resumes(s, reaction, user)
      moved(s) == IF reaction.emoji = Forward THEN l_current_page[s] + 1
                  ELSE IF reaction.emoji = Back THEN l_current_page[s] - 1
                  ELSE l_current_page[s]
  IN /\ l_pc' = [s \in Sessions |-> IF hit(s) THEN "edit" ELSE base_pc[s]]
     /\ l_current_page' = [s \in Sessions |-> IF hit(s) THEN moved(s) ELSE l_current_page[s]]
     /\ l_trigger' = [s \in Sessions |->
          IF hit(s) THEN [reaction |-> reaction, user |-> user] ELSE l_trigger[s]]
     /\ l_new_page' = [s \in Sessions |->
          IF hit(s) THEN PyIndex(l_pages[s], PageIndex(moved(s), Len(l_pages[s])))
          ELSE l_new_page[s]]
     /\ l_next' = [s \in Sessions |->
          IF hit(s) /\ reaction.emoji = Forward THEN l_next[s] + 1 ELSE l_next[s]]
     /\ l_prev' = [s \in Sessions |->
          IF hit(s) /\ reaction.emoji = Back THEN l_prev[s] + 1 ELSE l_prev[s]]
     /\ l_qualifying' = [s \in Sessions |->
          IF /\ l_pc[s] \in {"wait", "edit", "remove"}
             /\ user = l_author[s] /\ reaction.message = s
             /\ reaction.emoji \in {Back, Forward}
          THEN l_qualifying[s] + 1 ELSE l_qualifying[s]]

\* user u sends -l: the pages are built and the first is sent as a reply
LInvoke(s, u) ==
  /\ l_pc[s] = "idle"
  /\ l_pc' = [l_pc EXCEPT ![s] = "reply"]
  /\ l_author' = [l_author EXCEPT ![s] = u]
  /\ l_pages' = [l_pages EXCEPT ![s] = Pages]
  /\ l_current_page' = [l_current_page EXCEPT ![s] = 0]
  /\ UNCHANGED <<l_trigger, l_new_page, msg_content, msg_reactions, l_next, l_prev,
                 l_qualifying, n_events>>

\* user u sends -l when LANGUAGES is the table languages: every session builds
\* its pages from the one table the module loaded
LInvokeTable(s, u, languages) ==
  /\ l_pc[s] = "idle"
  /\ \A other \in Sessions :
       l_pc[other] # "idle" => l_pages[other] = BuildPages(languages, per_page)
  /\ l_pc' = [l_pc EXCEPT ![s] = "reply"]
  /\ l_author' = [l_author EXCEPT ![s] = u]
  /\ l_pages' = [l_pages EXCEPT ![s] = BuildPages(languages, per_page)]
  /\ l_current_page' = [l_current_page EXCEPT ![s] = 0]
  /\ UNCHANGED <<l_trigger, l_new_page, msg_content, msg_reactions, l_next, l_prev,
                 l_qualifying, n_events>>

\* ctx.message.reply(pages[current_page]) returns the listing message
LReplyDone(s) ==
  /\ l_pc[s] = "reply"
  /\ msg_content' = [msg_content EXCEPT ![s] = PyIndex(l_pages[s], l_current_page[s])]
  /\ l_pc' = [l_pc EXCEPT ![s] = IF Len(l_pages[s]) > 1 THEN "add_back" ELSE "returned"]
  /\ UNCHANGED <<l_author, l_pages, l_current_page, l_trigger, l_new_page,
                 msg_reactions, l_next, l_prev, l_qualifying, n_events>>

\* message.add_reaction(Back) returns; the platform announces the reaction
LAddBackDone(s) ==
  /\ l_pc[s] = "add_back"
  /\ msg_reactions' = [msg_reactions EXCEPT ![s] = @ \cup {<<Bot, Back>>}]
  /\ Dispatch([l_pc EXCEPT ![s] = "add_fwd"], [message |-> s, emoji |-> Back], Bot)
  /\ UNCHANGED <<l_author, l_pages, msg_content, n_events>>

\* message.add_reaction(Forward) returns; the loop is entered
LAddForwardDone(s) ==
  /\ l_pc[s] = "add_fwd"
  /\ msg_reactions' = [msg_reactions EXCEPT ![s] = @ \cup {<<Bot, Forward>>}]
  /\ Dispatch([l_pc EXCEPT ![s] = "wait"], [message |-> s, emoji |-> Forward], Bot)
  /\ UNCHANGED <<l_author, l_pages, msg_content, n_events>>

\* message.edit(content=new_page) returns
LEditDone(s) ==
  /\ l_pc[s] = "edit"
  /\ msg_content' = [msg_content EXCEPT ![s] = l_new_page[s]]
  /\ l_pc' = [l_pc EXCEPT ![s] = "remove"]
  /\ UNCHANGED <<l_author, l_pages, l_current_page, l_trigger, l_new_page,
                 msg_reactions, l_next, l_prev, l_qualifying, n_events>>

\* a loop that is left once the reaction is removed
LRemoveDoneReturns(s) ==
  /\ l_pc[s] = "remove"
  /\ msg_reactions' = [msg_reactions EXCEPT
       ![s] = @ \ {<<l_trigger[s].user, l_trigger[s].reaction.emoji>>}]
  /\ l_pc' = [l_pc EXCEPT ![s] = "returned"]
  /\ UNCHANGED <<l_author, l_pages, l_current_page, l_trigger, l_new_page,
                 msg_content, l_next, l_prev, l_qualifying, n_events>>

\* message.remove_reaction(reaction, user) returns; back to bot.wait_for
LRemoveDone(s) ==
  /\ l_pc[s] = "remove"
  /\ msg_reactions' = [msg_reactions EXCEPT
       ![s] = @ \ {<<l_trigger[s].user, l_trigger[s].reaction.emoji>>}]
  /\ l_pc' = [l_pc EXCEPT ![s] = "wait"]
  /\ UNCHANGED <<l_author, l_pages, l_current_page, l_trigger, l_new_page,
                 msg_content, l_next, l_prev, l_qualifying, n_events>>

\* a call of the platform raises; l has no handler, the fault leaves it
LRaise(s) ==
  /\ l_pc[s] \in {"reply", "add_back", "add_fwd", "edit", "remove"}
  /\ l_pc' = [l_pc EXCEPT ![s] = "raised"]
  /\ UNCHANGED <<l_author, l_pages, l_current_page, l_trigger, l_new_page,
                 msg_content, msg_reactions, l_next, l_prev, l_qualifying, n_events>>

\* reactions users add or take back in one run
MaxEvents == 3

\* a user adds a reaction to a message: the platform announces reaction_add
UserReact(u, m, e) ==
  /\ n_events < MaxEvents
  /\ msg_content[m] # Absent
  /\ <<u, e>> \notin msg_reactions[m]
  /\ n_events' = n_events + 1
  /\ msg_reactions' = [msg_reactions EXCEPT ![m] = @ \cup {<<u, e>>}]
  /\ Dispatch(l_pc, [message |-> m, emoji |-> e], u)
  /\ UNCHANGED <<l_author, l_pages, msg_content>>

\* a user takes back a reaction: reaction_remove, which nothing waits for
UserUnreact(u, m, e) ==
  /\ n_events < MaxEvents
  /\ <<u, e>> \in msg_reactions[m]
  /\ n_events' = n_events + 1
  /\ msg_reactions' = [msg_reactions EXCEPT ![m] = @ \ {<<u, e>>}]
  /\ UNCHANGED <<l_pc, l_author, l_pages, l_current_page, l_trigger, l_new_page,
                 msg_content, l_next, l_prev, l_qualifying>>

(***************************************************************************)
(* The lookups, the suffix removal and the page building on their own:     *)
(* each is called with an input, or with what the call before it returned. *)
(***************************************************************************)
VARIABLES
  p_calls    \* the calls made, in order: [fn, args, result]

p_vars == <<p_calls>>

PInit == p_calls = <<>>

\* calls in one chain
MaxCalls == 3

Called(fn, args, result) == [fn |-> fn, args |-> args, result |-> result]

\* what the last call returned, when it was a call of one of fns
LastResultOf(fns) ==
  IF p_calls # <<>> /\ p_calls[Len(p_calls)].fn \in fns
  THEN {p_calls[Len(p_calls)].result}
  ELSE {}

\* get_lang_code(dest_lang), with an input or with the name a reverse lookup gave
CallGetLangCode(dest_lang) ==
  /\ Len(p_calls) < MaxCalls
  /\ IF p_calls = <<>> THEN TRUE
     ELSE dest_lang \in LastResultOf({"key_from_value"}) \ {None}
  /\ p_calls' = Append(p_calls, Called("get_lang_code", <<dest_lang>>, get_lang_code(dest_lang)))

\* key_from_value(dictionary, value), with an input or with the code
\* get_lang_code gave
CallKeyFromValue(dictionary, value) ==
  /\ Len(p_calls) < MaxCalls
  /\ IF p_calls = <<>> THEN TRUE
     ELSE dictionary = LANGUAGES /\ value \in LastResultOf({"get_lang_code"})
  /\ p_calls' = Append(p_calls,
       Called("key_from_value", <<dictionary, value>>, key_from_value(dictionary, value)))

\* lines 213-219 of t for a message of the bot, with an input or with the
\* text the same lines gave before
CallStrip(content) ==
  /\ Len(p_calls) < MaxCalls
  /\ IF p_calls = <<>> THEN TRUE ELSE content \in LastResultOf({"strip"})
  /\ p_calls' = Append(p_calls, Called("strip", <<content>>, CleanContent(content, TRUE)))

\* lines 257-277 of l for a table of n entries: the pages, and the content of
\* the initial reply
CallBuildPages(n) ==
  /\ p_calls = <<>>
  /\ LET languages == SubSeq(LANGUAGES, 1, n)
         pages == BuildPages(languages, per_page)
     IN p_calls' = <<Called("pages", <<languages>>, [pages |-> pages, reply |-> PyIndex(pages, 0)])>>

(***************************************************************************)
(* Delivery on its own: return_message called with contents of the lengths *)
(* around the multiples of MAX_MESSAGE_LENGTH.                             *)
(***************************************************************************)
\* contents of up to MaxChunks full chunks and a few characters more
MaxChunks == 3

\* lengths within MaxDelta of a multiple of MAX_MESSAGE_LENGTH are tried
MaxDelta == 2

Lengths ==
  {n \in {k * MAX_MESSAGE_LENGTH + d : k \in 0..MaxChunks, d \in (0 - MaxDelta)..MaxDelta} :
     n >= 0} \cup {4500}

\* 7 and 3 do not divide MAX_MESSAGE_LENGTH: two chunks of one content differ
Patterns == {"abcdefg", "xyz"}

Contents == {Repeat(p, n) : p \in Patterns, n \in Lengths}

vars == <<rm_vars, t_vars, c_vars, he_vars, l_vars, p_vars>>

Init == RMInit /\ TInit /\ CInit /\ HEInit /\ LInit /\ PInit

DeliverCall ==
  /\ rm_pc = "idle"
  /\ \E content \in Contents : RMCall(content)
  /\ UNCHANGED <<t_vars, c_vars, he_vars, l_vars, p_vars>>

NextDeliver ==
  \/ DeliverCall
  \/ RMReplyDone /\ UNCHANGED <<t_vars, c_vars, he_vars, l_vars, p_vars>>
  \/ RMSendDone /\ UNCHANGED <<t_vars, c_vars, he_vars, l_vars, p_vars>>
  \/ RMRaise /\ UNCHANGED <<t_vars, c_vars, he_vars, l_vars, p_vars>>

SpecDeliver == Init /\ [][NextDeliver]_vars

RECURSIVE ConcatTexts(_, _)
ConcatTexts(msgs, k) ==
  IF k > Len(msgs) THEN "" ELSE msgs[k].text \o ConcatTexts(msgs, k + 1)

\* ceil(a / b) for a >= 0, b > 0
CeilDiv(a, b) == (a + b - 1) \div b

\* C1: return_message sends max(1, ceil(L/2000)) messages; message k (0-based) is
\* content[2000k : 2000(k+1)], of at most 2000 characters; the first is a reply
\* and the later ones follow-ups, in increasing offset order; the messages
\* concatenated are the content; an empty content is sent as one empty reply.
C1_Chunks ==
  LET L == Len(rm_content)
      n == Max(1, CeilDiv(L, 2000))
  IN /\ Len(rm_sent) <= n
     /\ \A k \in 1..Len(rm_sent) :
          /\ rm_sent[k].text = SubSeq(rm_content, 2000 * (k - 1) + 1, Min(2000 * k, L))
          /\ Len(rm_sent[k].text) <= 2000
          /\ rm_sent[k].kind = IF k = 1 THEN "reply" ELSE "send"
     /\ rm_pc = "returned" =>
          /\ Len(rm_sent) = n
          /\ ConcatTexts(rm_sent, 1) = rm_content
     /\ (rm_pc = "returned" /\ rm_content = "") =>
          rm_sent = <<[kind |-> "reply", text |-> ""]>>

\* a content of 4500 characters has been delivered in three messages
C1_Witness ==
  /\ rm_pc = "returned"
  /\ Len(rm_content) = 4500
  /\ Len(rm_sent) = 3
  /\ Len(rm_sent[3].text) = 500

(***************************************************************************)
(* The listing: sessions of l and the reactions of users, interleaved.     *)
(***************************************************************************)
NextList ==
  \/ \E s \in Sessions, u \in Users : LInvoke(s, u) /\ UNCHANGED <<rm_vars, t_vars, c_vars, he_vars, p_vars>>
  \/ \E s \in Sessions : LReplyDone(s) /\ UNCHANGED <<rm_vars, t_vars, c_vars, he_vars, p_vars>>
  \/ \E s \in Sessions : LAddBackDone(s) /\ UNCHANGED <<rm_vars, t_vars, c_vars, he_vars, p_vars>>
  \/ \E s \in Sessions : LAddForwardDone(s) /\ UNCHANGED <<rm_vars, t_vars, c_vars, he_vars, p_vars>>
  \/ \E s \in Sessions : LEditDone(s) /\ UNCHANGED <<rm_vars, t_vars, c_vars, he_vars, p_vars>>
  \/ \E s \in Sessions : LRemoveDone(s) /\ UNCHANGED <<rm_vars, t_vars, c_vars, he_vars, p_vars>>
  \/ \E s \in Sessions : LRaise(s) /\ UNCHANGED <<rm_vars, t_vars, c_vars, he_vars, p_vars>>
  \/ \E u \in Users, m \in Messages, e \in Emojis : UserReact(u, m, e) /\ UNCHANGED <<rm_vars, t_vars, c_vars, he_vars, p_vars>>
  \/ \E u \in Users, m \in Messages, e \in Emojis : UserUnreact(u, m, e) /\ UNCHANGED <<rm_vars, t_vars, c_vars, he_vars, p_vars>>

SpecList == Init /\ [][NextList]_vars

(***************************************************************************)
(* The translate command: one invocation with every input and every       *)
(* answer of the services.                                                 *)
(***************************************************************************)
\* what users give as the language
DestInputs == {"en", "FR", "French", "chinese", "zh", "zh-tw", "ZH-CN", "klingon", "xx", "None"}

\* a text of n characters
LongText(n) == Repeat("lorem ipsum ", n)

\* contents of the message replied to
MessageContents ==
  {"hello", "  ", "***", "**bonjour** (English -> French)", "(English -> French)",
   "hallo (English -> French) (French -> German)",
   "(English -(German -> Greek)> French)", "see (English -> Klingon)"}

\* codes single_detection answers with
DetectedCodes == {"en", "fr", "zh", "zh-TW", "xx", "und"}

\* what translate answers with
Translations == {None, "", "hola", LongText(1990)}

NextTranslate ==
  \/ \E has_reference \in BOOLEAN, dest_lang \in DestInputs :
       TInvoke(has_reference, dest_lang) /\ UNCHANGED <<rm_vars, c_vars, he_vars, l_vars, p_vars>>
  \/ \E content \in MessageContents, by_bot \in BOOLEAN :
       TFetchDone(content, by_bot) /\ UNCHANGED <<rm_vars, c_vars, he_vars, l_vars, p_vars>>
  \/ \E detected \in DetectedCodes : TDetectDone(detected) /\ UNCHANGED <<c_vars, he_vars, l_vars, p_vars>>
  \/ \E translated_msg \in Translations : TTranslateEmpty(translated_msg) /\ UNCHANGED <<c_vars, he_vars, l_vars, p_vars>>
  \/ \E translated_msg \in Translations : TTranslateDone(translated_msg) /\ UNCHANGED <<c_vars, he_vars, l_vars, p_vars>>
  \/ RMReplyDone /\ UNCHANGED <<t_vars, c_vars, he_vars, l_vars, p_vars>>
  \/ RMSendDone /\ UNCHANGED <<t_vars, c_vars, he_vars, l_vars, p_vars>>
  \/ RMRaise /\ UNCHANGED <<t_vars, c_vars, he_vars, l_vars, p_vars>>
  \/ TDeliverReturn /\ UNCHANGED <<c_vars, he_vars, l_vars, p_vars>>
  \/ TDeliverRaise /\ UNCHANGED <<c_vars, he_vars, l_vars, p_vars>>
  \/ TReplyDone /\ UNCHANGED <<c_vars, he_vars, l_vars, p_vars>>
  \/ TRaise /\ UNCHANGED <<c_vars, he_vars, l_vars, p_vars>>
  \/ TExceptReplyDone /\ UNCHANGED <<c_vars, he_vars, l_vars, p_vars>>
  \/ TExceptReplyRaise /\ UNCHANGED <<c_vars, he_vars, l_vars, p_vars>>

SpecTranslate == Init /\ [][NextTranslate]_vars

\* the calls of the given names among the calls made
CallsOf(names) == {k \in 1..Len(t_calls) : t_calls[k].call \in names}

\* C4: translate is called only with a detected code (zh read as zh-CN) that is
\* one of the registry's codes; for any other detected code t replies with the
\* source-language error and calls neither translate nor the delivery.
C4_KnownSourceOnly ==
  /\ \A k \in CallsOf({"translate"}) : t_calls[k].arg \in LanguageValues
  /\ (t_src_lang # "" /\ t_src_lang \notin LanguageValues) =>
       /\ t_src_lang # "zh"
       /\ CallsOf({"translate", "deliver"}) = {}
       /\ \E k \in CallsOf({"reply"}) :
            /\ t_calls[k - 1].call = "detect"
            /\ t_calls[k].arg = "Error: '" \o t_src_lang
                  \o "' is not a supported source language.\n" \o USAGE_ERROR

\* a detected code outside the registry has ended in the source-language error
C4_Witness ==
  /\ t_pc = "returned"
  /\ t_src_lang = "xx"
  /\ t_sent = <<UnsupportedSourceText("xx")>>
  /\ CallsOf({"translate"}) = {}

C9_NamesInvalidInput ==
  (t_pc # "idle" /\ t_reference /\ get_lang_code(t_arg) = None) =>
    /\ t_calls[1].call = "reply"
    /\ Contains(t_calls[1].arg, "is not a valid language")
    /\ Contains(t_calls[1].arg, t_arg)
    /\ CallsOf({"fetch", "detect", "translate"}) = {}

(***************************************************************************)
(* The commands c, h and e: one invocation of each, for every expression   *)
(* and every value of the keys.                                            *)
(***************************************************************************)
\* the values the environment can give to the keys
KeyValues == [TOKEN : {"tokenA", "tokenBB"}, ID : {7, 8}, TRANSLATE_API_KEY : {"key"}]

\* what users give as the equation: the words after -c
Equations ==
  {<<>>, <<"">>, <<"2^10">>, <<"1", "+", "2">>, <<"-3", "*", "(2+1)">>, <<"7/2">>, <<"floor(7/2)">>,
   <<"ceil(7/2)", "-", "1">>, <<"sqrt(16)">>, <<"sqrt(-1)">>, <<"sqrt(2)">>, <<"1/0">>, <<"2+">>,
   <<"(1">>, <<"pi">>, <<"sin(0)">>, <<"deg(pi)">>, <<"degrees(1)">>, <<"foo(1)">>, <<"foo(1)", "+">>,
   <<"1", "+", "foo">>, <<"sqrt(-1)", "+", "foo">>, <<"ID">>, <<"ID", "^", "2">>, <<"TOKEN">>,
   <<"len(TOKEN)">>, <<"MAX_MESSAGE_LENGTH">>, <<"bot">>}

\* what users give as the string: the words after -e
EchoWords == {<<>>, <<"hi">>, <<"hello", "world">>}

NextCommands ==
  \/ \E keys \in KeyValues : Startup(keys) /\ UNCHANGED <<rm_vars, t_vars, he_vars, l_vars, p_vars>>
  \/ \E equation \in Equations : CInvoke(equation) /\ UNCHANGED <<rm_vars, t_vars, he_vars, l_vars, p_vars>>
  \/ CReplyDone /\ UNCHANGED <<rm_vars, t_vars, he_vars, l_vars, p_vars>>
  \/ CReplyRaise /\ UNCHANGED <<rm_vars, t_vars, he_vars, l_vars, p_vars>>
  \/ CExceptReplyDone /\ UNCHANGED <<rm_vars, t_vars, he_vars, l_vars, p_vars>>
  \/ CExceptReplyRaise /\ UNCHANGED <<rm_vars, t_vars, he_vars, l_vars, p_vars>>
  \/ HInvoke /\ UNCHANGED <<rm_vars, t_vars, c_vars, l_vars, p_vars>>
  \/ HReplyDone /\ UNCHANGED <<rm_vars, t_vars, c_vars, l_vars, p_vars>>
  \/ HReplyRaise /\ UNCHANGED <<rm_vars, t_vars, c_vars, l_vars, p_vars>>
  \/ \E words \in EchoWords : EInvoke(words) /\ UNCHANGED <<rm_vars, t_vars, c_vars, l_vars, p_vars>>
  \/ EReplyDone /\ UNCHANGED <<rm_vars, t_vars, c_vars, l_vars, p_vars>>
  \/ EReplyRaise /\ UNCHANGED <<rm_vars, t_vars, c_vars, l_vars, p_vars>>
  \/ EExceptReplyDone /\ UNCHANGED <<rm_vars, t_vars, c_vars, l_vars, p_vars>>
  \/ EExceptReplyRaise /\ UNCHANGED <<rm_vars, t_vars, c_vars, l_vars, p_vars>>

SpecCommands == Init /\ [][NextCommands]_vars

\* C7: the reply of c to an expression is the same whatever the values of
\* the module's globals outside the whitelist are: eval resolves no name
\* outside the whitelist, so two runs that differ only in the values of
\* TOKEN, ID and TRANSLATE_API_KEY call for the same reply.
C7_NoKeyDependence ==
  c_pc # "idle" => \A g \in KeyValues : CHandle(c_equation, g).calls = SubSeq(c_calls, 1, 1)

\* C8: when the expression names an unknown function (eval raises NameError),
\* c calls for exactly one reply, the unknown-function message with the
\* offending identifier, and no exception leaves the handler.
C8_UnknownFunctionReply ==
  StartsWithAt(c_exc, 1, "NameError") =>
    /\ c_pc # "escaped"
    /\ c_calls = <<UnknownFunctionReply(SubSeq(c_exc, Len("NameError:") + 1, Len(c_exc)))>>

\* C6: no exception leaves a command handler: h, t, l, c and e each end by
\* returning, whatever step raised, the replies of the error branches included.
C6_NoFaultEscapes ==
  /\ h_pc # "escaped"
  /\ c_pc # "escaped"
  /\ e_pc # "escaped"
  /\ t_pc # "escaped"
  /\ \A s \in Sessions : l_pc[s] # "raised"

(***************************************************************************)
(* The lookups, the suffix removal and the page building, for every case   *)
(* variant of every name and code of the table.                            *)
(***************************************************************************)
\* a name or a code as it stands, in upper case and in lower case
CaseVariants(x) == {x, Upper(x), Lower(x)}

\* what users give as a language: the variants of the table's names and codes,
\* the special cases, and texts that are neither
LookupInputs ==
  UNION {CaseVariants(LANGUAGES[k][1]) \cup CaseVariants(LANGUAGES[k][2]) : k \in 1..Len(LANGUAGES)}
    \cup {"chinese", "Chinese", "zh", "ZH", "zh-cn", "zh-tw", "Zh-Tw", "klingon", "zh-hk", ""}

\* a table in which names share a code
SharedCodes == << <<"filipino", "tl">>, <<"tagalog", "tl">>, <<"hebrew", "iw">>, <<"jewish", "iw">> >>

Dictionaries == {LANGUAGES, SharedCodes}

LookupValues == LanguageValues \cup {"xx", None}

\* contents of messages of the bot
BotTexts ==
  {"hola (English -> French)", "hola", "", "  **hola** (Chinese (Simplified) -> Greek)  ",
   "(German -> Greek)", "hola (english -> french)", "hola (English -> Klingon)",
   "a (English -> French) b (German -> Greek)", "hola (English -> French) (Greek -> German)",
   "hola (English -(German -> Greek)> French)",
   "hola (English -(German -> Greek)> French) (Greek -> German)",
   "hola (English -> French) !"}

NextLookup ==
  \/ \E dest_lang \in LookupInputs \cup LastResultOf({"key_from_value"}) :
       CallGetLangCode(dest_lang) /\ UNCHANGED <<rm_vars, t_vars, c_vars, he_vars, l_vars>>
  \/ \E dictionary \in Dictionaries, value \in LookupValues \cup LastResultOf({"get_lang_code"}) :
       CallKeyFromValue(dictionary, value) /\ UNCHANGED <<rm_vars, t_vars, c_vars, he_vars, l_vars>>
  \/ \E content \in BotTexts \cup LastResultOf({"strip"}) :
       CallStrip(content) /\ UNCHANGED <<rm_vars, t_vars, c_vars, he_vars, l_vars>>
  \/ \E n \in 1..Len(LANGUAGES) :
       CallBuildPages(n) /\ UNCHANGED <<rm_vars, t_vars, c_vars, he_vars, l_vars>>

SpecLookup == Init /\ [][NextLookup]_vars

\* the entries whose name or code has the variant s
EntriesOf(s) ==
  {k \in 1..Len(LANGUAGES) : s \in CaseVariants(LANGUAGES[k][1]) \cup CaseVariants(LANGUAGES[k][2])}

\* C11: get_lang_code is case-insensitive over the whole table: called with a
\* name or a code of an entry as it stands, in upper case or in lower case, it
\* returns the code of that entry and never None.
C11_CaseInsensitive ==
  \A i \in 1..Len(p_calls) :
    p_calls[i].fn = "get_lang_code" =>
      \A k \in EntriesOf(p_calls[i].args[1]) : p_calls[i].result = LANGUAGES[k][2]

\* the code the table has for a name
CodeOfName(name) == LANGUAGES[CHOOSE k \in 1..Len(LANGUAGES) : LANGUAGES[k][1] = name][2]

\* C12: "chinese", "zh" and "zh-cn" give the code of simplified Chinese, "zh-tw"
\* the code of traditional Chinese, which is another one; an input in the table
\* gives the table's code, and an input that is neither in the table nor a
\* special case gives None.
C12_ChineseFallbacks ==
  \A i \in 1..Len(p_calls) :
    p_calls[i].fn = "get_lang_code" =>
      LET given == p_calls[i].args[1]
          lower == Lower(given)
          rows == {k \in 1..Len(LANGUAGES) : lower = LANGUAGES[k][1] \/ lower = LANGUAGES[k][2]}
      IN /\ lower \in {"chinese", "zh", "zh-cn"} =>
              p_calls[i].result = "zh-CN" /\ p_calls[i].result = CodeOfName("chinese (simplified)")
         /\ lower = "zh-tw" =>
              p_calls[i].result = "zh-TW" /\ p_calls[i].result = CodeOfName("chinese (traditional)")
                /\ p_calls[i].result # CodeOfName("chinese (simplified)")
         /\ rows # {} => p_calls[i].result = LANGUAGES[CHOOSE k \in rows : \A j \in rows : k <= j][2]
         /\ (rows = {} /\ lower \notin {"chinese", "zh", "zh-cn", "zh-tw"}) => p_calls[i].result = None

\* "zh-tw" and "zh" were resolved, to two codes
C12_Witness ==
  /\ Len(p_calls) = 3
  /\ p_calls[1] = Called("get_lang_code", <<"Zh-Tw">>, "zh-TW")
  /\ p_calls[2] = Called("key_from_value", <<LANGUAGES, "zh-TW">>, "chinese (traditional)")
  /\ p_calls[3] = Called("get_lang_code", <<"chinese (traditional)">>, "zh-TW")

\* the names of the table
LanguageNames == {LANGUAGES[k][1] : k \in 1..Len(LANGUAGES)}

\* the first position of a dictionary that has the value
FirstWith(dictionary, value) ==
  CHOOSE k \in 1..Len(dictionary) :
    /\ dictionary[k][2] = value
    /\ \A j \in 1..(k - 1) : dictionary[j][2] # value

\* C13: for every name of the table, the reverse lookup of the code that
\* get_lang_code gives for the name returns the name; in a dictionary where
\* several keys have one value the reverse lookup returns the first of them, and
\* None for a value no key has.
C13_RoundTrip ==
  \A i \in 1..Len(p_calls) :
    p_calls[i].fn = "key_from_value" =>
      LET dictionary == p_calls[i].args[1]
          value == p_calls[i].args[2]
      IN /\ (i > 1 /\ p_calls[i - 1].fn = "get_lang_code"
               /\ p_calls[i - 1].args[1] \in LanguageNames) =>
              p_calls[i].result = p_calls[i - 1].args[1]
         /\ IF \E k \in 1..Len(dictionary) : dictionary[k][2] = value
            THEN p_calls[i].result = dictionary[FirstWith(dictionary, value)][1]
            ELSE p_calls[i].result = None

\* a name went to its code and back
C13_Witness ==
  /\ Len(p_calls) >= 2
  /\ p_calls[1] = Called("get_lang_code", <<"chinese (simplified)">>, "zh-CN")
  /\ p_calls[2] = Called("key_from_value", <<LANGUAGES, "zh-CN">>, "chinese (simplified)")

\* the reverse lookup of a code two names share gave the first name
C13_WitnessShared == p_calls = <<Called("key_from_value", <<SharedCodes, "iw">>, "hebrew")>>

\* whether s ends in an annotation "(A -> B)" of two titled names of the table
EndsInAnnotation(s) ==
  \E i \in 1..Len(s) : CharAt(s, i) = "(" /\ (Len(s) + 1) \in MatchEnds(s, i)

\* C14: the suffix removal of t for a message of the bot is idempotent and
\* removes the trailing annotation: the text it returns for a text that ends
\* in "(A -> B)" does not end in such an annotation, and applied to a text it
\* returned it returns the same text.
C14_StripIdempotent ==
  \A i \in 1..Len(p_calls) :
    p_calls[i].fn = "strip" =>
      /\ EndsInAnnotation(p_calls[i].args[1]) => ~EndsInAnnotation(p_calls[i].result)
      /\ (i > 1 /\ p_calls[i - 1].fn = "strip") => p_calls[i].result = p_calls[i].args[1]

\* C15: for a table of n entries the pages are ceil(n/20) many; page k states
\* "k of ceil(n/20)" and has the entries 20*(k-1) .. min(20*k, n)-1 in the
\* order of the table, so no page is empty or has more than 20 entries and
\* each entry is on one page; the initial reply is the first page.
C15_Pages ==
  \A i \in 1..Len(p_calls) :
    p_calls[i].fn = "pages" =>
      LET languages == p_calls[i].args[1]
          n == Len(languages)
          pages == p_calls[i].result.pages
      IN /\ Len(pages) = CeilDiv(n, 20)
         /\ \A k \in 1..Len(pages) :
              /\ pages[k].number = k
              /\ pages[k].total = CeilDiv(n, 20)
              /\ Len(pages[k].rows) = Min(20 * k, n) - 20 * (k - 1)
              /\ Len(pages[k].rows) \in 1..20
              /\ \A j \in 1..Len(pages[k].rows) :
                   pages[k].rows[j] = <<Title(languages[20 * (k - 1) + j][1]),
                                        Upper(languages[20 * (k - 1) + j][2])>>
         /\ p_calls[i].result.reply = pages[1]

\* a table of 41 entries gave three pages, the last with one entry
C15_Witness ==
  /\ Len(p_calls) = 1
  /\ p_calls[1].fn = "pages"
  /\ Len(p_calls[1].args[1]) = 41
  /\ Len(p_calls[1].result.pages) = 3
  /\ Len(p_calls[1].result.pages[3].rows) = 1
  /\ p_calls[1].result.reply.number = 1

\* C16: for an empty equation c calls for the usage reply before any
\* evaluation: eval is not called, the first reply called for is the usage
\* reply, and when no reply raises it is the one reply sent.
C16_EmptyRejected ==
  (c_pc # "idle" /\ ReplaceCaret(Join(c_equation)) = "") =>
    /\ c_evals = <<>>
    /\ c_calls[1] = UsageReply
    /\ Len(c_sent) <= 1
    /\ c_exc = "" => c_calls = <<UsageReply>>
    /\ (c_exc = "" /\ c_pc = "returned") => c_sent = <<UsageReply>>

\* -c without an equation has returned with the usage reply
C16_Witness ==
  /\ c_equation = <<>>
  /\ c_pc = "returned"
  /\ c_evals = <<>>
  /\ c_sent = <<UsageReply>>

\* the calls of t without the reply of the except clause
PipelineCalls == SelectSeq(t_calls, LAMBDA x : x.call # "except_reply")

\* the steps of t after the two checks, in their order
PipelineSteps == <<"fetch", "detect", "translate", "deliver">>

\* the error replies of t after k steps
ErrorRepliesAfter(k) ==
  CASE k = 0 -> {NoReferenceText, InvalidLanguageText(None)}
    [] k = 1 -> {EmptyMessageText}
    [] k = 2 -> {UnsupportedSourceText(t_src_lang)}
    [] k = 3 -> {TranslationFailedText}
    [] OTHER -> {}

\* C17: the steps of t occur only in the order fetch, detection, translation,
\* delivery, after the reference check and the destination lookup; a missing
\* reference, an unresolved destination, an empty content, an unsupported
\* detected code or a falsy translation each end the invocation with one error
\* reply and no later step; the delivery is called only with a translation
\* that is not empty.
C17_OrderedPipeline ==
  LET calls == PipelineCalls
  IN /\ \A k \in 1..Len(calls) :
          IF calls[k].call = "reply"
          THEN k = Len(calls) /\ calls[k].arg \in ErrorRepliesAfter(k - 1)
          ELSE k <= Len(PipelineSteps) /\ calls[k].call = PipelineSteps[k]
     /\ (t_pc # "idle" /\ ~t_reference) => calls = <<Call("reply", NoReferenceText)>>
     /\ (t_pc # "idle" /\ t_reference /\ get_lang_code(t_arg) = None) =>
          Len(calls) = 1 /\ calls[1].call = "reply"
     /\ (Len(calls) >= 1 /\ calls[1].call = "fetch" /\ t_pc # "fetch" /\ t_fault # "fetch"
           /\ t_msg_content = "") =>
          calls = <<Call("fetch", ""), Call("reply", EmptyMessageText)>>
     /\ (t_src_lang # "" /\ t_src_lang \notin LanguageValues) =>
          Len(calls) = 3 /\ calls[3] = Call("reply", UnsupportedSourceText(t_src_lang))
     /\ (t_pc = "returned" /\ t_fault = "" /\ calls[Len(calls)].call = "reply") =>
          t_sent = <<calls[Len(calls)].arg>>
     /\ (\E k \in 1..Len(calls) : calls[k].call = "deliver") =>
          \E translated_msg \in Translations \ {None, ""} :
            rm_content = FormatTranslation(translated_msg,
                                           key_from_value(LANGUAGES, t_src_lang),
                                           key_from_value(LANGUAGES, t_dest_lang))

\* a falsy translation has ended t with the failure reply and without delivery
C17_Witness ==
  /\ t_pc = "returned"
  /\ [k \in 1..Len(t_calls) |-> t_calls[k].call] = <<"fetch", "detect", "translate", "reply">>
  /\ t_calls[3].arg = "zh-CN"
  /\ t_sent = <<TranslationFailedText>>
  /\ rm_pc = "idle"

(***************************************************************************)
(* The listing for a table of one page and for a table of several pages.   *)
(***************************************************************************)
\* LANGUAGES as it is, and a table that fills exactly one page
Tables == {LANGUAGES, SubSeq(LANGUAGES, 1, per_page)}

NextListTables ==
  \/ \E s \in Sessions, u \in Users, languages \in Tables :
       LInvokeTable(s, u, languages) /\ UNCHANGED <<rm_vars, t_vars, c_vars, he_vars, p_vars>>
  \/ \E s \in Sessions : LReplyDone(s) /\ UNCHANGED <<rm_vars, t_vars, c_vars, he_vars, p_vars>>
  \/ \E s \in Sessions : LAddBackDone(s) /\ UNCHANGED <<rm_vars, t_vars, c_vars, he_vars, p_vars>>
  \/ \E s \in Sessions : LAddForwardDone(s) /\ UNCHANGED <<rm_vars, t_vars, c_vars, he_vars, p_vars>>
  \/ \E s \in Sessions : LEditDone(s) /\ UNCHANGED <<rm_vars, t_vars, c_vars, he_vars, p_vars>>
  \/ \E s \in Sessions : LRemoveDone(s) /\ UNCHANGED <<rm_vars, t_vars, c_vars, he_vars, p_vars>>
  \/ \E s \in Sessions : LRaise(s) /\ UNCHANGED <<rm_vars, t_vars, c_vars, he_vars, p_vars>>
  \/ \E u \in Users, m \in Messages, e \in Emojis :
       UserReact(u, m, e) /\ UNCHANGED <<rm_vars, t_vars, c_vars, he_vars, p_vars>>
  \/ \E u \in Users, m \in Messages, e \in Emojis :
       UserUnreact(u, m, e) /\ UNCHANGED <<rm_vars, t_vars, c_vars, he_vars, p_vars>>

SpecListTables == Init /\ [][NextListTables]_vars

\* the reactions of the bot on the message of session s
BotReactions(s) == {r \in msg_reactions[s] : r[1] = Bot}

\* what C18 says of a state
LifecycleState ==
  \A s \in Sessions :
    /\ (l_pc[s] # "idle" /\ Len(l_pages[s]) = 1) =>
         /\ l_pc[s] \in {"reply", "returned", "raised"}
         /\ BotReactions(s) = {}
         /\ l_pc[s] = "returned" => msg_content[s] = l_pages[s][1]
    /\ (l_pc[s] # "idle" /\ Len(l_pages[s]) > 1) =>
         /\ l_pc[s] # "returned"
         /\ l_pc[s] \in {"reply", "add_back"} => BotReactions(s) = {}
         /\ l_pc[s] = "add_fwd" => BotReactions(s) = {<<Bot, Back>>}
         /\ l_pc[s] \in {"reply", "add_back", "add_fwd"} =>
              l_next[s] = 0 /\ l_prev[s] = 0 /\ l_current_page[s] = 0
         /\ l_pc[s] \in {"wait", "edit", "remove"} =>
              BotReactions(s) = {<<Bot, Back>>, <<Bot, Forward>>}

\* what C18 says of a step: an activation is processed only from the wait, and
\* once its reaction is removed the handler waits again
LifecycleStep ==
  \A s \in Sessions :
    /\ (l_pc[s] # "edit" /\ l_pc'[s] = "edit") => l_pc[s] = "wait"
    /\ (l_pc[s] = "edit" /\ l_pc'[s] # "edit") => l_pc'[s] \in {"remove", "raised"}
    /\ (l_pc[s] = "remove" /\ l_pc'[s] # "remove") => l_pc'[s] \in {"wait", "raised"}
    /\ (l_pc[s] = "wait" /\ l_pc'[s] # "wait") => l_pc'[s] = "edit"

\* C18: a listing of one page gets no navigation reaction and its handler
\* returns after the initial reply; a listing of several pages gets the back
\* and then the forward reaction before any activation is processed, and its
\* handler never returns: after each activation it waits for the next one.
C18_Lifecycle == [](LifecycleState) /\ [][LifecycleStep]_vars

\* a session of one page has returned, with no reaction but a user's
C18_Witness ==
  /\ l_pc[1] = "returned"
  /\ Len(l_pages[1]) = 1
  /\ Len(msg_content[1].rows) = per_page
  /\ msg_reactions[1] = {<<"alice", Forward>>}

\* a session of several pages waits again after an activation
C18_WitnessLoop ==
  /\ l_pc[1] = "wait"
  /\ Len(l_pages[1]) = 3
  /\ l_next[1] = 1
  /\ msg_content[1] = l_pages[1][2]
  /\ msg_reactions[1] = {<<Bot, Back>>, <<Bot, Forward>>}

\* what C19 says of a step, for the session s
IsolatedStep(s) ==
  /\ l_current_page'[s] # l_current_page[s] =>
       /\ l_pc[s] = "wait" /\ l_pc'[s] = "edit"
       /\ l_trigger'[s].reaction.message = s
       /\ l_trigger'[s].user = l_author[s]
  /\ (msg_content[s] # Absent /\ msg_content'[s] # msg_content[s]) =>
       l_pc[s] = "edit" /\ msg_content'[s] = l_new_page[s]
  /\ (l_current_page'[s] # l_current_page[s] \/ (l_pc[s] = "edit" /\ l_pc'[s] = "remove")) =>
       \A other \in Sessions \ {s} :
         /\ l_current_page'[other] = l_current_page[other]
         /\ msg_content'[other] = msg_content[other]
         /\ l_new_page'[other] = l_new_page[other]

\* C19: with two listing sessions at once, an activation one session accepts
\* changes the cursor and the message of that session alone; the cursor of a
\* session is written only by its own handler, for a reaction on its own message.
C19_Isolated == [][\A s \in Sessions : IsolatedStep(s)]_vars

\* two sessions of one user wait, and only the first has moved
C19_Witness ==
  /\ l_author[1] = "alice" /\ l_author[2] = "alice"
  /\ l_pc[1] = "wait" /\ l_pc[2] = "wait"
  /\ l_current_page[1] = 1 /\ l_current_page[2] = 0
  /\ msg_content[1] = l_pages[1][2]
  /\ msg_content[2] = l_pages[2][1]

NavEmojis == {Back, Forward}

\* C2: with N >= 2 pages, the content last written to the listing message is
\* pages[cursor mod N], cursor = (number of next) - (number of previous); the index
\* used is in 0..N-1 also for a negative cursor and for one beyond N.
C2_ShownPage ==
  \A s \in Sessions :
    LET N == Len(l_pages[s])
        cursor == l_next[s] - l_prev[s]
    IN (N >= 2 /\ l_pc[s] \in {"wait", "edit", "remove"}) =>
         /\ l_current_page[s] = cursor
         /\ PageIndex(l_current_page[s], N) \in 0..(N - 1)
         /\ l_pc[s] = "edit" => l_new_page[s] = l_pages[s][(cursor % N) + 1]
         /\ l_pc[s] \in {"wait", "remove"} => msg_content[s] = l_pages[s][(cursor % N) + 1]

\* "previous" on the first page has shown the last page
C2_Witness ==
  \E s \in Sessions :
    /\ l_pc[s] = "wait"
    /\ l_current_page[s] = 0 - 1
    /\ Len(l_pages[s]) = 3
    /\ msg_content[s] = l_pages[s][3]

\* "next" on the last page has shown the first page
C2_WitnessWrap ==
  \E s \in Sessions :
    /\ l_pc[s] = "wait"
    /\ l_current_page[s] = Len(l_pages[s])
    /\ msg_content[s] = l_pages[s][1]

\* whether the trigger a session holds is a reaction of its author, on its own
\* message, with a navigation emoji
OwnNavigation(s, trigger) ==
  /\ trigger.user = l_author[s]
  /\ trigger.reaction.message = s
  /\ trigger.reaction.emoji \in NavEmojis

\* C3: a session's cursor moves, or its message is edited, only for a reaction
\* its author added to its own message with a navigation emoji; any other
\* reaction (another user, another message, another emoji, the bot's two
\* reactions) leaves the cursor and the shown page as they are.
C3_OnlyRequester ==
  [][\A s \in Sessions :
       /\ (l_current_page'[s] # l_current_page[s] \/ (l_pc[s] = "wait" /\ l_pc'[s] # "wait")) =>
            \E e \in NavEmojis : <<l_author[s], e>> \in msg_reactions'[s] \ msg_reactions[s]
       /\ (msg_content[s] # Absent /\ msg_content'[s] # msg_content[s]) =>
            OwnNavigation(s, l_trigger[s])
       /\ \A m \in Messages, u \in Users \cup {Bot}, e \in Emojis :
            (/\ <<u, e>> \in msg_reactions'[m] \ msg_reactions[m]
             /\ ~(u = l_author[s] /\ m = s /\ e \in NavEmojis)) =>
               /\ l_current_page'[s] = l_current_page[s]
               /\ msg_content'[s] = msg_content[s]
               /\ l_pc'[s] = "edit" => l_pc[s] = "edit"
    ]_vars

\* a session has taken one reaction of its author while a navigation reaction
\* of another user sits on its message, uncounted
C3_Witness ==
  \E s \in Sessions, u \in Users :
    /\ u # l_author[s]
    /\ <<u, Forward>> \in msg_reactions[s]
    /\ <<Bot, Forward>> \in msg_reactions[s]
    /\ l_pc[s] = "wait"
    /\ l_next[s] + l_prev[s] = 1
    /\ l_current_page[s] = 0 - 1

\* C10: every reaction the author adds to the listing message with a navigation
\* emoji moves the cursor by one, also one that arrives while the handler awaits
\* the edit or the removal for an earlier one: after k of them the cursor has
\* moved k times.
C10_NoActivationDropped ==
  \A s \in Sessions :
    l_pc[s] = "wait" => l_next[s] + l_prev[s] = l_qualifying[s]

====
